---- MODULE Spec2Model ----
(***************************************************************************)
(* Model of the AdaptiveAI cog (src/adaptiveai/adaptiveai.py): the         *)
(* per-guild credential pool (api_keys, current_key_index) kept in the     *)
(* config store, the commands that mutate it, generate_response's          *)
(* retry/failover loop, the per-channel message history and the on_message *)
(* listener that records messages and decides whether to reply.            *)
(*                                                                         *)
(* Every awaited read or write of the config store is one step of the      *)
(* coroutine that performs it: a step is the store operation together with *)
(* the local code that follows it up to the next store operation.  The     *)
(* backend call (client.chat.complete) is synchronous; it touches only the *)
(* caller's locals and is a step of its own.  A read of api_keys hands the *)
(* handler its own copy of the list: keys.append and keys.pop change the   *)
(* copy, and only api_keys.set(keys) changes the persisted list.           *)
(***************************************************************************)
EXTENDS Integers, Sequences, FiniteSets, TLC

\* ------------------------------------------------------------------ bounds
\* operations started in one behaviour
MaxOps == 2
\* distinct credential values an operator may try to add
NumCreds == 9
\* rate-shaped errors the backend raises in one behaviour of interleaved handlers
MaxRateErrors == 2
\* the largest pool of the runs that check termination and message handling
MaxLivePool == 2
\* messages recorded in one channel since it was created or last cleared
MaxAppends == 52
\* channels of the guild
NumChannels == 2

\* ------------------------------------------------------- program constants
\* "if len(keys) >= 8"
MaxKeys == 8
\* Python's None, as returned by get_current_api_key on an empty pool
None == 0

Creds == 1..NumCreds
Procs == {"h1", "h2"}

\* ----------------------------------------------------------------- strings
\* A text is a sequence of one-character strings, so that lower() and the
\* substring test of generate_response can be computed.
Lower(ch) ==
  CASE ch = "R" -> "r" [] ch = "A" -> "a" [] ch = "T" -> "t" [] ch = "E" -> "e"
    [] ch = "Q" -> "q" [] ch = "U" -> "u" [] ch = "O" -> "o"
    [] ch = "L" -> "l" [] ch = "I" -> "i" [] ch = "M" -> "m"
    [] OTHER -> ch

LowerText(s) == [i \in 1..Len(s) |-> Lower(s[i])]

\* Python's  sub in s
Contains(s, sub) ==
  \E i \in 0..(Len(s) - Len(sub)) :
     \A j \in 1..Len(sub) : s[i + j] = sub[j]

\* messages the backend's exceptions may carry (str(e))
ErrRate     == <<"R", "a", "t", "e", " ", "l", "i", "m", "i", "t">>
ErrQuota    == <<"Q", "U", "O", "T", "A">>
ErrLimit    == <<"l", "i", "m", "i", "t">>
ErrModerate == <<"m", "o", "d", "e", "r", "a", "t", "e", "d">>
ErrTimeout  == <<"t", "i", "m", "e", "o", "u", "t">>
ErrEmpty    == <<>>
ErrorTexts  == {ErrRate, ErrQuota, ErrLimit, ErrModerate, ErrTimeout, ErrEmpty}

\* completions the backend may return (response.choices[0].message.content)
Completions == {<<"h", "i">>, <<"r", "a", "t", "e">>}

\* the fixed messages of generate_response (without their leading emoji)
NoCredentialsMsg == <<"No API key configured! Use /aiaddkey to set one up.">>
AllExhaustedMsg  == <<"All API keys have reached their limit. Please try again later.">>
ErrorPrefix      == <<"Error generating AI response: ">>

\* ---------------------------------------------------------- context buffer
\* deque(maxlen=50)
HistoryMaxLen == 50
\* messages[-30:]
ContextLen == 30

\* message.channel.id
Channels == 1..NumChannels

\* "No previous messages available."
NoHistoryMsg == <<"No previous messages available.">>

\* f"{author}: {content}"
Format(author, content) == author \o <<":", " ">> \o content

\* an append that turns the newest entry away when the deque is full
DequeAppendKeepOldest(d, x) ==
  IF Len(d) >= HistoryMaxLen THEN d ELSE Append(d, x)

\* deque(maxlen=50).append(x): at capacity the oldest entry goes
DequeAppend(d, x) ==
  IF Len(d) >= HistoryMaxLen THEN Append(Tail(d), x) ELSE Append(d, x)

\* add_message_to_history on the dict `history`
Recorded(history, channel_id, author, content) ==
  LET d == IF channel_id \in DOMAIN history THEN history[channel_id]
                                             ELSE <<>>
  IN  [c \in DOMAIN history \cup {channel_id} |->
         IF c = channel_id THEN DequeAppend(d, Format(author, content))
                           ELSE history[c]]

\* a clear that empties the deque and keeps it in the dict
ClearedInPlace(history, channel_id) ==
  [c \in DOMAIN history |-> IF c = channel_id THEN <<>> ELSE history[c]]

\* del self.message_history[ctx.channel.id]
Cleared(history, channel_id) ==
  [c \in DOMAIN history \ {channel_id} |-> history[c]]

\* a slice that takes every message of the deque
LastMessagesAll(messages) == messages

\* messages[-30:]
LastMessages(messages) ==
  SubSeq(messages,
         IF Len(messages) > ContextLen THEN Len(messages) - ContextLen + 1
                                       ELSE 1,
         Len(messages))

\* "\n".join(lines)
RECURSIVE Join(_)
Join(lines) ==
  IF lines = <<>> THEN <<>>
  ELSE IF Len(lines) = 1 THEN lines[1]
  ELSE lines[1] \o <<"\n">> \o Join(Tail(lines))

\* get_channel_context on the dict `history`
ChannelContext(history, channel_id) ==
  IF channel_id \notin DOMAIN history
    THEN NoHistoryMsg
    ELSE Join(LastMessages(history[channel_id]))

\* ----------------------------------------------------------- mention tokens
\* f'<@{self.bot.user.id}>' and f'<@!{self.bot.user.id}>', the bot's id 7
MentionToken == <<"<", "@", "7", ">">>
NickMentionToken == <<"<", "@", "!", "7", ">">>

\* str.replace(old, ''): every occurrence of old, left to right
RECURSIVE Replace(_, _)
Replace(s, old) ==
  IF Len(s) < Len(old) THEN s
  ELSE IF SubSeq(s, 1, Len(old)) = old
    THEN Replace(SubSeq(s, Len(old) + 1, Len(s)), old)
    ELSE <<s[1]>> \o Replace(Tail(s), old)

Whitespace == {" ", "\t", "\n"}

RECURSIVE LStrip(_)
LStrip(s) ==
  IF s # <<>> /\ s[1] \in Whitespace THEN LStrip(Tail(s)) ELSE s

RECURSIVE RStrip(_)
RStrip(s) ==
  IF s # <<>> /\ s[Len(s)] \in Whitespace
    THEN RStrip(SubSeq(s, 1, Len(s) - 1))
    ELSE s

\* str.strip()
Strip(s) == RStrip(LStrip(s))

\* a removal of the plain mention form only
StripMentionsPlainOnly(content) == Strip(Replace(content, MentionToken))

\* on_message, lines 181-182
StripMentions(content) ==
  Strip(Replace(Strip(Replace(content, MentionToken)), NickMentionToken))

\* --------------------------------------------------------- code's decisions
\* "rate" in error_msg or "limit" in error_msg or "quota" in error_msg,
\* with error_msg = str(e).lower()
IsRateLimit(e) ==
  LET error_msg == LowerText(e)
  IN  \/ Contains(error_msg, <<"r", "a", "t", "e">>)
      \/ Contains(error_msg, <<"l", "i", "m", "i", "t">>)
      \/ Contains(error_msg, <<"q", "u", "o", "t", "a">>)

\* a guard that lets a pool of one credential rotate
TooFewKeysOffByOne(keys) == Len(keys) < 1

\* switch_to_next_key: "if len(keys) <= 1: return False"
TooFewKeys(keys) == Len(keys) <= 1

\* rotations that skip a credential, or that do not wrap around
NextIndexSkip(current_index, keys) == (current_index + 2) % Len(keys)

NextIndexNoWrap(current_index, keys) == current_index + 1

\* a rotation that stays where it is once the last credential is reached
NextIndexStick(current_index, keys) ==
  IF current_index + 1 < Len(keys) THEN current_index + 1 ELSE current_index

\* switch_to_next_key: next_index = (current_index + 1) % len(keys)
NextIndex(current_index, keys) == (current_index + 1) % Len(keys)

\* keys[i] with Python's 0-based index
At(keys, i) == keys[i + 1]

\* ------------------------------------------------------------------- state
VARIABLES
  api_keys,           \* config.guild(g).api_keys: the persisted credential list
  current_key_index,  \* config.guild(g).current_key_index
  proc,               \* per handler: its position and locals
  ops_left,           \* operations that may still be started
  rate_errors,        \* rate-shaped errors the backend has raised so far
  overlapped,         \* have two operations on this scope ever been in flight
                      \* together (before this behaviour or during it)?
  freeroom_channel,   \* config.guild(g).freeroom_channel
  message_history,    \* self.message_history: channel id -> deque of lines
  appended,           \* per channel, the <<author, content>> pairs recorded
                      \* since the channel's deque was created or last cleared
  context,            \* what get_channel_context returned, if it was the last
                      \* thing done to the buffers
  cleared             \* the channels whose deque /aiclear has deleted

\* the free-reply channel and the context buffers
chat == <<freeroom_channel, message_history, appended, context, cleared>>

vars == <<api_keys, current_key_index, proc, ops_left, rate_errors, overlapped,
          chat>>

\* no message
NoMessage ==
  [bot |-> FALSE, guild |-> FALSE, channel |-> None, author |-> <<>>,
   content |-> <<>>, mentions |-> FALSE]

\* no context has been asked for
NoContext == [channel |-> None, text |-> <<>>]

\* a handler that is not running
IdleFrame ==
  [pc |-> "idle", op |-> "none", caller |-> "none", arg |-> 0,
   keys |-> <<>>, current_index |-> 0, next_index |-> 0,
   api_key |-> None, max_retries |-> <<>>, retry_count |-> 0, e |-> <<>>,
   switched |-> FALSE, result |-> <<>>, returned |-> None,
   removed |-> None,
   message |-> NoMessage, freeroom_id |-> None, prompt |-> <<>>,
   sent |-> <<>>,
   pre_history |-> <<>>,
   attempts |-> <<>>, replies |-> <<>>, answered |-> <<>>,
   index_at_attempt |-> 0, rotations |-> 0,
   pre_keys |-> <<>>, pre_index |-> 0, run |-> 0, run_index |-> 0]

\* handler f returns: its locals die, what it reported and the record of
\* what it did (attempts, replies, rotations, the state it started from) stay
Finish(f, result) ==
  [IdleFrame EXCEPT !.pc = "done", !.op = f.op, !.arg = f.arg,
                    !.result = result, !.returned = f.returned,
                    !.removed = f.removed,
                    !.message = f.message, !.prompt = f.prompt,
                    !.freeroom_id = f.freeroom_id,
                    !.pre_history = f.pre_history,
                    \* on_message sends what generate_response returned
                    \* (lines 176 and 192)
                    !.sent = IF f.op = "on_message" /\ f.caller # "on_message"
                               THEN <<result>> ELSE <<>>,
                    !.switched = f.switched,
                    !.attempts = f.attempts, !.replies = f.replies,
                    !.answered = f.answered,
                    !.index_at_attempt = f.index_at_attempt,
                    !.rotations = f.rotations,
                    !.pre_keys = f.pre_keys, !.pre_index = f.pre_index,
                    !.run = f.run, !.run_index = f.run_index]

\* the pools  <<1, .., n>>  an operator builds by n accepted adds
Pool(n) == [i \in 1..n |-> i]

\* the index names a credential, or the pool is as default_guild has it
Healthy(keys, index) == index < Len(keys) \/ (keys = <<>> /\ index = 0)

\* default_guild is api_keys = [], current_key_index = 0; the other initial
\* states are the ones earlier commands leave behind: n adds, then rotations
\* (index below n), or a rotation's write landing after concurrent removals
\* (index at or past n).
InitScope ==
  /\ \E n \in 0..MaxKeys : api_keys = Pool(n)
  /\ current_key_index \in 0..(MaxKeys - 1)
  /\ proc = [p \in Procs |-> IdleFrame]
  /\ rate_errors = 0
  /\ overlapped = ~Healthy(api_keys, current_key_index)
  /\ freeroom_channel = None
  /\ message_history = <<>>
  /\ appended = [c \in Channels |-> <<>>]
  /\ context = NoContext
  /\ cleared = {}

Init == InitScope /\ ops_left = MaxOps

Free(p) == proc[p].pc \in {"idle", "done"}

\* handler p is invoked for operation o with argument a; its first store
\* operation is at label pc0
Invoke(p, o, a, pc0) ==
  /\ Free(p)
  /\ ops_left > 0
  /\ ops_left' = ops_left - 1
  /\ overlapped' = (overlapped \/ \E q \in Procs \ {p} : ~Free(q))
  /\ LET again == /\ o = "switch_key" /\ proc[p].op = "switch_key"
                   /\ proc[p].pc = "done" /\ proc[p].switched
     IN  proc' = [proc EXCEPT ![p] =
           [IdleFrame EXCEPT
              !.pc = pc0, !.op = o, !.caller = o, !.arg = a,
              \* the persisted state this operation starts from
              !.pre_keys = api_keys, !.pre_index = current_key_index,
              \* the successful rotations this handler has just made in a
              \* row, and the index before the first of them
              !.run = IF again THEN proc[p].run + 1 ELSE 0,
              !.run_index = IF again THEN proc[p].run_index
                                     ELSE current_key_index]]
  /\ UNCHANGED <<api_keys, current_key_index, rate_errors, chat>>

\* ------------------------------------------------------ switch_to_next_key
\* what the caller does with switch_to_next_key's return value, up to its
\* next store operation
AfterSwitch(f, switched) ==
  LET g == [f EXCEPT !.switched = switched,
                     !.rotations = IF switched THEN @ + 1 ELSE @]
  IN  IF f.caller = "switch_key"
        THEN IF switched
               THEN [g EXCEPT !.pc = "switch_key_index"]
               ELSE Finish(g, <<"Only one API key available, cannot switch!">>)
        ELSE \* generate_response, lines 135-142
             IF switched
               THEN \* e is dead from here on: the next except rebinds it
                    [g EXCEPT !.pc = "get_current_api_key_keys",
                              !.caller = "generate_response_retry",
                              !.e = <<>>]
               ELSE Finish(g, ErrorPrefix \o f.e)

\* keys = await self.get_api_keys(guild); if len(keys) <= 1: return False
switch_to_next_key_keys(p) ==
  /\ proc[p].pc = "switch_to_next_key_keys"
  /\ LET f == [proc[p] EXCEPT !.keys = api_keys]
     IN  proc' = [proc EXCEPT ![p] =
           IF TooFewKeys(f.keys)
             THEN AfterSwitch(f, FALSE)
             ELSE [f EXCEPT !.pc = "switch_to_next_key_index"]]
  /\ UNCHANGED <<api_keys, current_key_index, ops_left, rate_errors,
                 overlapped, chat>>

\* current_index = await ...current_key_index(); next_index = ...
switch_to_next_key_index(p) ==
  /\ proc[p].pc = "switch_to_next_key_index"
  /\ proc' = [proc EXCEPT ![p] =
        [@ EXCEPT !.current_index = current_key_index,
                  !.next_index = NextIndex(current_key_index, proc[p].keys),
                  !.pc = "switch_to_next_key_set"]]
  /\ UNCHANGED <<api_keys, current_key_index, ops_left, rate_errors,
                 overlapped, chat>>

\* await ...current_key_index.set(next_index); return True
switch_to_next_key_set(p) ==
  /\ proc[p].pc = "switch_to_next_key_set"
  /\ current_key_index' = proc[p].next_index
  /\ proc' = [proc EXCEPT ![p] = AfterSwitch(@, TRUE)]
  /\ UNCHANGED <<api_keys, ops_left, rate_errors, overlapped, chat>>

\* -------------------------------------------------------------- switch_key
\* /aiswitchkey: switched = await self.switch_to_next_key(ctx.guild)
switch_key(p) == Invoke(p, "switch_key", 0, "switch_to_next_key_keys")

\* current_index = await ...current_key_index(); ctx.send("Switched to ...")
switch_key_index(p) ==
  /\ proc[p].pc = "switch_key_index"
  /\ proc' = [proc EXCEPT ![p] =
        Finish(@, <<"Switched to API key #">>)]
  /\ UNCHANGED <<api_keys, current_key_index, ops_left, rate_errors,
                 overlapped, chat>>

\* ----------------------------------------------------- get_current_api_key
\* a test for the empty string only, which None passes
FalsyEmptyOnly(api_key) == api_key < None

\* generate_response: "if not api_key"
Falsy(api_key) == api_key = None

\* a loop that runs once more than there are credentials
LoopContinuesOnceMore(retry_count, max_retries) == retry_count <= Len(max_retries)

\* a loop that retries for as long as rotation succeeds
LoopContinuesForever(retry_count, max_retries) == retry_count >= 0

\* a loop that gives up one credential early
LoopContinuesOnceLess(retry_count, max_retries) ==
  retry_count + 1 < Len(max_retries)

\* generate_response: "while retry_count < len(max_retries)"
LoopContinues(retry_count, max_retries) == retry_count < Len(max_retries)

\* the head of generate_response's while loop, reached with the locals of f
LoopHead(f) ==
  IF LoopContinues(f.retry_count, f.max_retries)
    THEN [f EXCEPT !.pc = "generate_response_attempt"]
    ELSE Finish(f, AllExhaustedMsg)

\* what the caller does with get_current_api_key's return value, up to its
\* next store operation
AfterCurrent(f, key) ==
  CASE f.caller = "get_current_api_key" ->
         Finish([f EXCEPT !.returned = key], <<>>)
    [] f.caller = "generate_response" ->          \* lines 76-81
         IF Falsy(key)
           THEN Finish(f, NoCredentialsMsg)
           ELSE [f EXCEPT !.api_key = key,
                          !.pc = "generate_response_max_retries"]
    [] f.caller = "generate_response_retry" ->    \* lines 137-139
         LoopHead([f EXCEPT !.api_key = key,
                            !.retry_count = @ + 1,
                            !.caller = "generate_response"])

\* get_current_api_key: "if not keys: return None"
NoKeys(keys) == keys = <<>>

\* a range test that takes the last credential for out of range
OutOfRangeOffByOne(current_index, keys) == current_index >= Len(keys) - 1

\* get_current_api_key: "if current_index >= len(keys)"
OutOfRange(current_index, keys) == current_index >= Len(keys)

\* the operation `current` on its own
get_current_api_key(p) ==
  Invoke(p, "get_current_api_key", 0, "get_current_api_key_keys")

\* keys = await self.get_api_keys(guild); if not keys: return None
get_current_api_key_keys(p) ==
  /\ proc[p].pc = "get_current_api_key_keys"
  /\ LET f == [proc[p] EXCEPT !.keys = api_keys]
     IN  proc' = [proc EXCEPT ![p] =
           IF NoKeys(f.keys)
             THEN AfterCurrent(f, None)
             ELSE [f EXCEPT !.pc = "get_current_api_key_index"]]
  /\ UNCHANGED <<api_keys, current_key_index, ops_left, rate_errors,
                 overlapped, chat>>

\* current_index = await ...current_key_index(); in range: return keys[current_index]
get_current_api_key_index(p) ==
  /\ proc[p].pc = "get_current_api_key_index"
  /\ LET f == [proc[p] EXCEPT !.current_index = current_key_index]
     IN  proc' = [proc EXCEPT ![p] =
           IF OutOfRange(f.current_index, f.keys)
             THEN [f EXCEPT !.current_index = 0,
                            !.pc = "get_current_api_key_set"]
             ELSE AfterCurrent(f, At(f.keys, f.current_index))]
  /\ UNCHANGED <<api_keys, current_key_index, ops_left, rate_errors,
                 overlapped, chat>>

\* await ...current_key_index.set(0); return keys[current_index]
get_current_api_key_set(p) ==
  /\ proc[p].pc = "get_current_api_key_set"
  /\ current_key_index' = 0
  /\ proc' = [proc EXCEPT ![p] = AfterCurrent(@, At(@.keys, @.current_index))]
  /\ UNCHANGED <<api_keys, ops_left, rate_errors, overlapped, chat>>

\* ------------------------------------------------------- generate_response
\* the error texts that contain rate, limit or quota in some letter case
RateShaped == {ErrRate, ErrQuota, ErrLimit, ErrModerate}

ReplyKind(reply) ==
  IF reply \in Completions THEN "completion"
  ELSE IF reply \in RateShaped THEN "rate" ELSE "other"

\* api_key = await self.get_current_api_key(guild)
generate_response(p) ==
  Invoke(p, "generate_response", 0, "get_current_api_key_keys")

\* max_retries = await self.config.guild(guild).api_keys(); retry_count = 0
generate_response_max_retries(p) ==
  /\ proc[p].pc = "generate_response_max_retries"
  /\ proc' = [proc EXCEPT ![p] =
        LoopHead([@ EXCEPT !.max_retries = api_keys, !.retry_count = 0])]
  /\ UNCHANGED <<api_keys, current_key_index, ops_left, rate_errors,
                 overlapped, chat>>

\* the try block: client.chat.complete(...) with api_key answers `reply`,
\* a completion (returned) or an exception's text (handled at lines 130-142)
Attempt(f, reply) ==
  LET g == [f EXCEPT !.attempts = Append(@, f.api_key),
                     !.replies = Append(@, ReplyKind(reply)),
                     !.answered = reply]
  IN  IF reply \in Completions
        THEN Finish(g, reply)
        ELSE IF IsRateLimit(reply)
               THEN [g EXCEPT !.e = reply, !.pc = "switch_to_next_key_keys"]
               ELSE Finish(g, ErrorPrefix \o reply)

generate_response_attempt(p, replies) ==
  /\ proc[p].pc = "generate_response_attempt"
  /\ \E reply \in replies :
        /\ proc' = [proc EXCEPT ![p] =
              Attempt([@ EXCEPT !.index_at_attempt = current_key_index], reply)]
        /\ rate_errors' = IF ReplyKind(reply) = "rate" THEN rate_errors + 1
                                                      ELSE rate_errors
  /\ UNCHANGED <<api_keys, current_key_index, ops_left, overlapped, chat>>

\* ------------------------------------------------------------- add_api_key
\* a capacity test that lets a ninth credential in
AtCapacityOffByOne(keys) == Len(keys) > MaxKeys

\* "if len(keys) >= 8"
AtCapacity(keys) == Len(keys) >= MaxKeys

\* "if api_key in keys"
In(api_key, keys) == \E i \in 1..Len(keys) : keys[i] = api_key

\* keys.insert(0, api_key)
ListPrepend(keys, api_key) == <<api_key>> \o keys

\* keys.append(api_key)
ListAppend(keys, api_key) == Append(keys, api_key)

\* /aiaddkey <api_key>
add_api_key(p, api_key) == Invoke(p, "add_api_key", api_key, "add_api_key_keys")

\* keys = await self.get_api_keys(ctx.guild), the two rejections, keys.append
add_api_key_keys(p) ==
  /\ proc[p].pc = "add_api_key_keys"
  /\ LET f == [proc[p] EXCEPT !.keys = api_keys]
     IN  proc' = [proc EXCEPT ![p] =
           IF AtCapacity(f.keys)
             THEN Finish(f, <<"Maximum of 8 API keys reached!">>)
           ELSE IF In(f.arg, f.keys)
             THEN Finish(f, <<"This API key is already added!">>)
           ELSE [f EXCEPT !.keys = ListAppend(@, f.arg),
                          !.pc = "add_api_key_set"]]
  /\ UNCHANGED <<api_keys, current_key_index, ops_left, rate_errors,
                 overlapped, chat>>

\* await ...api_keys.set(keys); ctx.send("API key #n has been added!")
add_api_key_set(p) ==
  /\ proc[p].pc = "add_api_key_set"
  /\ api_keys' = proc[p].keys
  /\ proc' = [proc EXCEPT ![p] =
        Finish(@, <<"API key has been added!">>)]
  /\ UNCHANGED <<current_key_index, ops_left, rate_errors, overlapped,
                 chat>>

\* ---------------------------------------------------------- remove_api_key
\* "if key_number < 1 or key_number > len(keys)"
InvalidNumber(key_number, keys) == key_number < 1 \/ key_number > Len(keys)

\* a removal that always takes the first credential
PopFirst(keys, key_number) == Tail(keys)

\* keys.pop(key_number - 1)
Pop(keys, key_number) ==
  [i \in 1..(Len(keys) - 1) |-> IF i < key_number THEN keys[i] ELSE keys[i + 1]]

\* a reset that misses the index just past the end
NeedsResetOffByOne(current_index, keys) == current_index > Len(keys) /\ Len(keys) > 0

\* "if current_index >= len(keys) and len(keys) > 0"
NeedsReset(current_index, keys) == current_index >= Len(keys) /\ Len(keys) > 0

\* /airemovekey <key_number>
remove_api_key(p, key_number) ==
  Invoke(p, "remove_api_key", key_number, "remove_api_key_keys")

\* keys = await self.get_api_keys(ctx.guild), the rejection, keys.pop
remove_api_key_keys(p) ==
  /\ proc[p].pc = "remove_api_key_keys"
  /\ LET f == [proc[p] EXCEPT !.keys = api_keys]
     IN  proc' = [proc EXCEPT ![p] =
           IF InvalidNumber(f.arg, f.keys)
             THEN Finish(f, <<"Invalid key number!">>)
             ELSE [f EXCEPT !.removed = At(f.keys, f.arg - 1),
                            !.keys = Pop(@, f.arg),
                            !.pc = "remove_api_key_set"]]
  /\ UNCHANGED <<api_keys, current_key_index, ops_left, rate_errors,
                 overlapped, chat>>

\* await ...api_keys.set(keys)
remove_api_key_set(p) ==
  /\ proc[p].pc = "remove_api_key_set"
  /\ api_keys' = proc[p].keys
  /\ proc' = [proc EXCEPT ![p] = [@ EXCEPT !.pc = "remove_api_key_index"]]
  /\ UNCHANGED <<current_key_index, ops_left, rate_errors, overlapped,
                 chat>>

\* current_index = await ...current_key_index(); is a reset needed?
remove_api_key_index(p) ==
  /\ proc[p].pc = "remove_api_key_index"
  /\ LET f == [proc[p] EXCEPT !.current_index = current_key_index]
     IN  proc' = [proc EXCEPT ![p] =
           IF NeedsReset(f.current_index, f.keys)
             THEN [f EXCEPT !.pc = "remove_api_key_reset"]
             ELSE Finish(f, <<"API key has been removed!">>)]
  /\ UNCHANGED <<api_keys, current_key_index, ops_left, rate_errors,
                 overlapped, chat>>

\* await ...current_key_index.set(0); ctx.send("API key #n has been removed!")
remove_api_key_reset(p) ==
  /\ proc[p].pc = "remove_api_key_reset"
  /\ current_key_index' = 0
  /\ proc' = [proc EXCEPT ![p] =
        Finish(@, <<"API key has been removed!">>)]
  /\ UNCHANGED <<api_keys, ops_left, rate_errors, overlapped, chat>>

\* ------------------------------------------------- the context buffers
\* the credential pool and the handlers
pool == <<api_keys, current_key_index, proc, rate_errors, overlapped>>

\* self.add_message_to_history(channel_id, author, content)
add_message_to_history(channel_id, author, content) ==
  /\ message_history' = Recorded(message_history, channel_id, author, content)
  /\ appended' = [appended EXCEPT ![channel_id] = Append(@, <<author, content>>)]
  /\ context' = NoContext
  /\ UNCHANGED <<pool, freeroom_channel, cleared>>

\* self.get_channel_context(channel_id)
get_channel_context(channel_id) ==
  /\ context' = [channel |-> channel_id,
                 text |-> ChannelContext(message_history, channel_id)]
  /\ UNCHANGED <<pool, freeroom_channel, message_history, appended, cleared>>

\* /aiclear in channel channel_id
clear_history(channel_id) ==
  /\ IF channel_id \in DOMAIN message_history
       THEN /\ message_history' = Cleared(message_history, channel_id)
            /\ appended' = [appended EXCEPT ![channel_id] = <<>>]
            /\ cleared' = cleared \cup {channel_id}
       ELSE UNCHANGED <<message_history, appended, cleared>>
  /\ context' = NoContext
  /\ UNCHANGED <<pool, freeroom_channel>>

\* ------------------------------------------------------------- on_message
\* /aisetfreeroom <channel>
set_freeroom(channel_id) ==
  /\ freeroom_channel' = channel_id
  /\ UNCHANGED <<pool, message_history, appended, context, cleared>>

\* /airemovefreeroom
remove_freeroom ==
  /\ freeroom_channel' = None
  /\ UNCHANGED <<pool, message_history, appended, context, cleared>>

\* a command of one store write that handler p runs from start to end
Command(p) ==
  /\ Free(p)
  /\ ops_left > 0
  /\ ops_left' = ops_left - 1

\* the listener up to its first await: the two early returns (lines 150-155)
\* and add_message_to_history (lines 158-162)
on_message(p, message) ==
  /\ Free(p)
  /\ ops_left > 0
  /\ ops_left' = ops_left - 1
  /\ LET f == [IdleFrame EXCEPT
                 !.op = "on_message", !.caller = "on_message",
                 !.message = message,
                 !.pre_history = message_history,
                 !.pre_keys = api_keys, !.pre_index = current_key_index]
     IN  IF message.bot \/ ~message.guild
           THEN /\ proc' = [proc EXCEPT ![p] = Finish(f, <<>>)]
                /\ UNCHANGED <<message_history, appended, context>>
           ELSE /\ proc' = [proc EXCEPT ![p] =
                       [f EXCEPT !.pc = "on_message_freeroom"]]
                /\ message_history' =
                     Recorded(message_history, message.channel,
                              message.author, message.content)
                /\ appended' =
                     [appended EXCEPT ![message.channel] =
                        Append(@, <<message.author, message.content>>)]
                /\ context' = NoContext
  /\ UNCHANGED <<api_keys, current_key_index, rate_errors, overlapped,
                 freeroom_channel, cleared>>

\* on_message calls generate_response with user_message = prompt
Generate(f, prompt) ==
  [f EXCEPT !.prompt = prompt, !.caller = "generate_response",
            !.pc = "get_current_api_key_keys"]

\* freeroom_id = await ...freeroom_channel(), and the choice of lines 167-184
on_message_freeroom(p) ==
  /\ proc[p].pc = "on_message_freeroom"
  /\ LET f       == [proc[p] EXCEPT !.freeroom_id = freeroom_channel]
         message == f.message
         content == StripMentions(message.content)
     IN  proc' = [proc EXCEPT ![p] =
           IF f.freeroom_id # None /\ message.channel = f.freeroom_id
             THEN Generate(f, message.content)
           ELSE IF message.mentions
             THEN IF content # <<>> THEN Generate(f, content)
                                    ELSE Finish(f, <<>>)
           ELSE Finish(f, <<>>)]
  /\ UNCHANGED <<api_keys, current_key_index, ops_left, rate_errors,
                 overlapped, chat>>

\* ---------------------------------------------------------- specifications
\* the numbers an operator may pass to /airemovekey
KeyNumbers == (0 - 1)..(MaxKeys + 1)

\* the steps of handler p, the backend answering from `replies`
Step(p, replies) ==
  \/ switch_key(p)
  \/ switch_key_index(p)
  \/ switch_to_next_key_keys(p)
  \/ switch_to_next_key_index(p)
  \/ switch_to_next_key_set(p)
  \/ get_current_api_key(p)
  \/ get_current_api_key_keys(p)
  \/ get_current_api_key_index(p)
  \/ get_current_api_key_set(p)
  \/ generate_response(p)
  \/ generate_response_max_retries(p)
  \/ generate_response_attempt(p, replies)
  \/ \E api_key \in Creds : add_api_key(p, api_key)
  \/ add_api_key_keys(p)
  \/ add_api_key_set(p)
  \/ \E key_number \in KeyNumbers : remove_api_key(p, key_number)
  \/ remove_api_key_keys(p)
  \/ remove_api_key_set(p)
  \/ remove_api_key_index(p)
  \/ remove_api_key_reset(p)

\* one handler at a time: every operation runs to completion before the next
Next == Step("h1", Completions \cup ErrorTexts)

Spec == Init /\ [][Next]_vars

\* /aiswitchkey over and over, nothing else in between
RotateStep(p) ==
  \/ switch_key(p)
  \/ switch_key_index(p)
  \/ switch_to_next_key_keys(p)
  \/ switch_to_next_key_index(p)
  \/ switch_to_next_key_set(p)

NextRotate == RotateStep("h1")

InitRotate == InitScope /\ ops_left = MaxKeys

SpecRotate == InitRotate /\ [][NextRotate]_vars

\* handlers interleave at the store's suspension points
\* (one reply of each kind: a completion, a rate-shaped error while the
\* backend has some left to raise, another error)
ConcReplies ==
  {<<"h", "i">>, ErrTimeout} \cup
  (IF rate_errors < MaxRateErrors THEN {ErrRate} ELSE {})

NextConc == \E p \in Procs : Step(p, ConcReplies)

SpecConc == Init /\ [][NextConc]_vars

\* the same handlers, started on a scope that no interleaving has touched
\* yet: the list empty with index 0, or the index naming a credential
InitHealthy == Init /\ Healthy(api_keys, current_key_index)

SpecRace == InitHealthy /\ [][NextConc]_vars

\* pools of at most MaxLivePool credentials, the backend free to raise a
\* rate-shaped error on every attempt
InitLive == Init /\ Len(api_keys) <= MaxLivePool

LiveReplies == {<<"h", "i">>, ErrTimeout, ErrRate}

NextLive == \E p \in Procs : Step(p, LiveReplies)

\* the event loop resumes every handler whose awaited store call or backend
\* call has completed: a handler in flight takes its next step
Resume(p) == Step(p, LiveReplies) /\ ~Free(p)

SpecLive ==
  /\ InitLive
  /\ [][NextLive]_vars
  /\ \A p \in Procs : WF_vars(Resume(p))

\* the buffers alone: messages recorded, contexts asked for and channels
\* cleared, the scope as default_guild has it
InitHistory ==
  /\ api_keys = <<>>
  /\ current_key_index = 0
  /\ proc = [p \in Procs |-> IdleFrame]
  /\ rate_errors = 0
  /\ overlapped = FALSE
  /\ ops_left = 0
  /\ freeroom_channel = None
  /\ message_history = <<>>
  /\ appended = [c \in Channels |-> <<>>]
  /\ context = NoContext
  /\ cleared = {}

\* the members who write, and the text of the n-th message of a channel
Authors == <<<<"a", "n", "n">>, <<"b", "o">>>>

Digits == <<"0", "1", "2", "3", "4", "5", "6", "7", "8", "9">>

RECURSIVE Numeral(_)
Numeral(n) ==
  IF n < 10 THEN <<Digits[n + 1]>>
            ELSE Numeral(n \div 10) \o <<Digits[(n % 10) + 1]>>

NextHistory ==
  /\ \/ \E c \in Channels :
          LET n == Len(appended[c]) + 1
          IN  /\ n <= MaxAppends
              /\ add_message_to_history(c, Authors[(n % 2) + 1], Numeral(n))
     \/ \E c \in Channels : get_channel_context(c)
     \/ \E c \in Channels : clear_history(c)
  /\ UNCHANGED ops_left

SpecHistory == InitHistory /\ [][NextHistory]_vars

\* the messages the platform delivers
MessageTexts ==
  { <<"y", "o">>,
    <<>>,
    MentionToken,
    MentionToken \o <<" ", "y", "o">>,
    <<" ">> \o NickMentionToken \o <<" ">>,
    NickMentionToken \o <<" ">> \o MentionToken,
    <<"y", "o", " ">> \o NickMentionToken }

Messages ==
  [bot : BOOLEAN, guild : BOOLEAN, channel : Channels,
   author : {Authors[1]}, content : MessageTexts, mentions : BOOLEAN]

\* the listener and the free-room commands, one at a time, on a small pool
InitChat ==
  /\ \E n \in 0..MaxLivePool : api_keys = Pool(n)
  /\ current_key_index \in 0..MaxLivePool
  /\ proc = [p \in Procs |-> IdleFrame]
  /\ rate_errors = 0
  /\ overlapped = ~Healthy(api_keys, current_key_index)
  /\ ops_left = MaxOps
  /\ freeroom_channel \in {None} \cup Channels
  /\ message_history = <<>>
  /\ appended = [c \in Channels |-> <<>>]
  /\ context = NoContext
  /\ cleared = {}

ChatStep(p) ==
  \/ \E message \in Messages : on_message(p, message)
  \/ on_message_freeroom(p)
  \/ get_current_api_key_keys(p)
  \/ get_current_api_key_index(p)
  \/ get_current_api_key_set(p)
  \/ generate_response_max_retries(p)
  \/ generate_response_attempt(p, LiveReplies)
  \/ switch_to_next_key_keys(p)
  \/ switch_to_next_key_index(p)
  \/ switch_to_next_key_set(p)
  \/ \E c \in Channels : Command(p) /\ set_freeroom(c)
  \/ Command(p) /\ remove_freeroom

NextChat == ChatStep("h1")

SpecChat == InitChat /\ [][NextChat]_vars

\* ------------------------------------------------------------------ claims
Range(seq) == {seq[i] : i \in 1..Len(seq)}

Distinct(seq) == \A i, j \in 1..Len(seq) : i # j => seq[i] # seq[j]

\* handler p has returned from operation o
Returned(p, o) == proc[p].pc = "done" /\ proc[p].op = o

\* the first j backend replies of a call were rate-shaped errors
AllRate(replies, j) == \A i \in 1..j : replies[i] = "rate"

\* C1: a generate call that runs alone on a pool of k >= 1 distinct
\* credentials, started with current_index in range, invokes the backend at
\* most k times and never twice with the same credential.
ClaimC1 ==
  \A p \in Procs :
    LET f == proc[p]
    IN  (/\ f.op = "generate_response"
         /\ Len(f.pre_keys) >= 1
         /\ f.pre_index < Len(f.pre_keys))
        => /\ Len(f.attempts) <= Len(f.pre_keys)
           /\ Distinct(f.attempts)

\* a call on a full pool that has tried every credential
WitnessC1 ==
  \E p \in Procs :
    /\ Returned(p, "generate_response")
    /\ Len(proc[p].pre_keys) = MaxKeys
    /\ proc[p].pre_index = 3
    /\ Len(proc[p].attempts) = MaxKeys

\* C2: on a pool of k >= 2 credentials with current_index = s, j rate-shaped
\* errors followed by a completion make generate return that completion
\* unmodified after exactly j + 1 backend invocations and j rotations, with
\* the persisted current_index at (s + j) mod k, the credential that
\* succeeded; and every call makes its first attempt with the credential the
\* persisted index names when the call starts.
ClaimC2 ==
  \A p \in Procs :
    LET f == proc[p]
        k == Len(f.pre_keys)
        s == f.pre_index
        n == Len(f.replies)
    IN  (f.op = "generate_response" /\ k >= 2 /\ s < k)
        => /\ f.attempts # <<>> => f.attempts[1] = At(f.pre_keys, s)
           /\ (/\ n >= 1
               /\ f.replies[n] = "completion"
               /\ AllRate(f.replies, n - 1))
              => /\ f.pc = "done"
                 /\ n <= k
                 /\ Len(f.attempts) = n
                 /\ f.rotations = n - 1
                 /\ f.result = f.answered
                 /\ api_keys = f.pre_keys
                 /\ current_key_index = (s + (n - 1)) % k
                 /\ At(api_keys, current_key_index) = f.attempts[n]

\* credentials 1 and 2 rate-limited, credential 3 answers
WitnessC2 ==
  \E p \in Procs :
    /\ Returned(p, "generate_response")
    /\ proc[p].pre_keys = Pool(3)
    /\ proc[p].pre_index = 0
    /\ proc[p].replies = <<"rate", "rate", "completion">>
    /\ proc[p].attempts = <<1, 2, 3>>
    /\ current_key_index = 2

\* C3: a failed attempt that is not (rate-shaped on a pool of more than one
\* credential) ends the call: no attempt follows it, the persisted
\* current_index stays as it was at that attempt, and the call returns the
\* error-prefixed message; a non-rate error on the first attempt gives one
\* attempt and no rotation, and a rate-shaped error on a pool of one
\* credential gives the error-prefixed message, not the all-keys-exhausted one.
ClaimC3 ==
  \A p \in Procs :
    LET f == proc[p]
        k == Len(f.pre_keys)
        n == Len(f.replies)
    IN  (f.op = "generate_response" /\ n >= 1)
        => /\ \A i \in 1..(n - 1) : f.replies[i] = "rate" /\ k > 1
           /\ (\/ f.replies[n] = "other"
               \/ (f.replies[n] = "rate" /\ k <= 1))
              => /\ Len(f.attempts) = n
                 /\ f.rotations = n - 1
                 /\ current_key_index = f.index_at_attempt
                 \* (on a pool of one, switch_to_next_key first reads the pool)
                 /\ f.pc \in {"done", "switch_to_next_key_keys"}
                 /\ f.pc = "done" =>
                      /\ f.result = ErrorPrefix \o f.answered
                      /\ f.result # AllExhaustedMsg
           /\ f.replies = <<"other">> =>
                 f.pc = "done" /\ Len(f.attempts) = 1 /\ f.rotations = 0

\* a rate-shaped error on a pool of one credential, surfaced as the error
WitnessC3 ==
  \E p \in Procs :
    /\ Returned(p, "generate_response")
    /\ Len(proc[p].pre_keys) = 1
    /\ proc[p].replies = <<"rate">>
    /\ proc[p].result = ErrorPrefix \o ErrModerate

\* C4: generate on an empty pool returns the NoCredentials message, invokes
\* the backend never, and changes neither the credential list nor
\* current_index.
ClaimC4 ==
  \A p \in Procs :
    LET f == proc[p]
    IN  (f.op = "generate_response" /\ f.pre_keys = <<>>)
        => /\ f.attempts = <<>>
           /\ api_keys = <<>>
           /\ current_key_index = f.pre_index
           /\ f.pc = "done" => f.result = NoCredentialsMsg

\* the call has returned on an empty pool whose index is not even 0
WitnessC4 ==
  \E p \in Procs :
    /\ Returned(p, "generate_response")
    /\ proc[p].pre_keys = <<>>
    /\ proc[p].pre_index = 2
    /\ proc[p].result = NoCredentialsMsg

\* C5: on a pool of k >= 2 credentials, a generate call whose every attempt
\* fails with a rate-shaped error returns the all-keys-exhausted message
\* after exactly k backend invocations, one per credential, and neither a
\* completion nor the error-prefixed message.
ClaimC5 ==
  \A p \in Procs :
    LET f == proc[p]
        k == Len(f.pre_keys)
        n == Len(f.replies)
    IN  (/\ Returned(p, "generate_response")
         /\ k >= 2
         /\ n >= 1
         /\ AllRate(f.replies, n))
        => /\ f.result = AllExhaustedMsg
           /\ Len(f.attempts) = k
           /\ Range(f.attempts) = Range(f.pre_keys)
           /\ f.result \notin Completions
           /\ SubSeq(f.result, 1, 1) # ErrorPrefix

\* all eight credentials of a full pool rate-limited
WitnessC5 ==
  \E p \in Procs :
    /\ Returned(p, "generate_response")
    /\ Len(proc[p].pre_keys) = MaxKeys
    /\ proc[p].replies = [i \in 1..MaxKeys |-> "rate"]
    /\ proc[p].result = AllExhaustedMsg

\* C6: rotate on a pool of fewer than 2 credentials returns false and leaves
\* current_index and the list unchanged; on a pool of k >= 2 with
\* current_index = i in range it returns true, sets current_index to
\* (i + 1) mod k and leaves the list unchanged; k successive rotations with
\* nothing in between bring current_index back to i.
ClaimC6 ==
  \A p \in Procs :
    LET f == proc[p]
        k == Len(f.pre_keys)
        i == f.pre_index
    IN  f.op = "switch_key"
        => /\ api_keys = f.pre_keys
           /\ (f.pc = "done" /\ k < 2)
              => ~f.switched /\ current_key_index = i
           /\ (f.pc = "done" /\ k >= 2 /\ i < k)
              => f.switched /\ current_key_index = (i + 1) % k
           /\ (f.pc = "done" /\ k >= 2 /\ f.run_index < k /\ f.run + 1 = k)
              => current_key_index = f.run_index

\* the eighth rotation in a row on a full pool, back at index 5
WitnessC6 ==
  \E p \in Procs :
    /\ Returned(p, "switch_key")
    /\ Len(proc[p].pre_keys) = MaxKeys
    /\ proc[p].run + 1 = MaxKeys
    /\ proc[p].run_index = 5
    /\ proc[p].pre_index = 4
    /\ current_key_index = 5

\* C7: whatever add, remove, rotate, current and generate operations have
\* run, interleaved at the store's suspension points or not, the persisted
\* list holds at most 8 credentials and none of them twice.
ClaimC7 == Len(api_keys) <= MaxKeys /\ Distinct(api_keys)

\* two adds that both read a pool of seven and both wrote a pool of eight
WitnessC7 ==
  /\ Returned("h1", "add_api_key")
  /\ Returned("h2", "add_api_key")
  /\ proc["h1"].pre_keys = Pool(MaxKeys - 1)
  /\ proc["h2"].pre_keys = Pool(MaxKeys - 1)
  /\ proc["h1"].arg # proc["h2"].arg
  /\ proc["h1"].result = <<"API key has been added!">>
  /\ proc["h2"].result = <<"API key has been added!">>
  /\ Len(api_keys) = MaxKeys

\* the persisted state is as operation f found it
Untouched(f) == api_keys = f.pre_keys /\ current_key_index = f.pre_index

\* C8: an add on a pool of 8, an add of a credential already present and a
\* remove with a position outside [1, len] change neither the list nor
\* current_index and report the rejection; an accepted add puts the
\* credential at the end, keeps the others in order and leaves current_index.
ClaimC8 ==
  \A p \in Procs :
    LET f   == proc[p]
        pre == f.pre_keys
    IN  /\ f.op = "add_api_key" =>
             IF Len(pre) >= MaxKeys
               THEN /\ Untouched(f)
                    /\ f.pc = "done" =>
                         f.result = <<"Maximum of 8 API keys reached!">>
             ELSE IF f.arg \in Range(pre)
               THEN /\ Untouched(f)
                    /\ f.pc = "done" =>
                         f.result = <<"This API key is already added!">>
             ELSE f.pc = "done" =>
                    /\ f.result = <<"API key has been added!">>
                    /\ Len(api_keys) = Len(pre) + 1
                    /\ SubSeq(api_keys, 1, Len(pre)) = pre
                    /\ api_keys[Len(pre) + 1] = f.arg
                    /\ current_key_index = f.pre_index
        /\ (f.op = "remove_api_key" /\ (f.arg < 1 \/ f.arg > Len(pre))) =>
             /\ Untouched(f)
             /\ f.pc = "done" => f.result = <<"Invalid key number!">>

\* a ninth, new credential turned away
WitnessC8 ==
  \E p \in Procs :
    /\ Returned(p, "add_api_key")
    /\ proc[p].pre_keys = Pool(MaxKeys)
    /\ proc[p].arg = MaxKeys + 1
    /\ proc[p].result = <<"Maximum of 8 API keys reached!">>

\* C9: while operations run one at a time, between operations a non-empty
\* pool has 0 <= current_index < len; and a remove of the last credential
\* while current_index points at it puts current_index at 0 if credentials
\* remain.
ClaimC9 ==
  /\ (~overlapped /\ \A p \in Procs : Free(p))
     => (api_keys # <<>> =>
           current_key_index >= 0 /\ current_key_index < Len(api_keys))
  /\ \A p \in Procs :
       LET f == proc[p]
       IN  (/\ Returned(p, "remove_api_key")
            /\ Len(f.pre_keys) >= 2
            /\ f.arg = Len(f.pre_keys)
            /\ f.pre_index = f.arg - 1)
           => /\ api_keys = SubSeq(f.pre_keys, 1, Len(f.pre_keys) - 1)
              /\ current_key_index = 0

\* the third of three credentials removed while it was the current one
WitnessC9 ==
  \E p \in Procs :
    /\ ~overlapped
    /\ Returned(p, "remove_api_key")
    /\ proc[p].pre_keys = Pool(3)
    /\ proc[p].arg = 3
    /\ proc[p].pre_index = 2
    /\ api_keys = Pool(2)
    /\ current_key_index = 0

\* C10: current never changes the list; on an empty pool it returns None
\* and changes nothing; with current_index < len it returns
\* credentials[current_index] and changes nothing; with current_index >= len
\* on a non-empty pool it persists current_index = 0 and returns
\* credentials[0].
ClaimC10 ==
  \A p \in Procs :
    LET f   == proc[p]
        pre == f.pre_keys
        i   == f.pre_index
    IN  f.op = "get_current_api_key"
        => /\ api_keys = pre
           /\ f.pc = "done" =>
                /\ pre = <<>> =>
                     f.returned = None /\ current_key_index = i
                /\ (pre # <<>> /\ i < Len(pre)) =>
                     f.returned = pre[i + 1] /\ current_key_index = i
                /\ (pre # <<>> /\ i >= Len(pre)) =>
                     f.returned = pre[1] /\ current_key_index = 0

\* an index left past the end of a pool of three, healed by the read
WitnessC10 ==
  \E p \in Procs :
    /\ Returned(p, "get_current_api_key")
    /\ proc[p].pre_keys = Pool(3)
    /\ proc[p].pre_index = 5
    /\ proc[p].returned = 1
    /\ current_key_index = 0

\* the line of a recorded <<author, content>> pair
Line(pair) == pair[1] \o <<":", " ">> \o pair[2]

\* the lines of the last m of the pairs in log, oldest first
LastLines(log, m) == [i \in 1..m |-> Line(log[Len(log) - m + i])]

\* lines[i..] written one under the other
RECURSIVE Below(_, _)
Below(lines, i) ==
  IF i > Len(lines) THEN <<>>
  ELSE (IF i > 1 THEN <<"\n">> ELSE <<>>) \o lines[i] \o Below(lines, i + 1)

Min(a, b) == IF a < b THEN a ELSE b

\* C11: after n >= 1 appends to a channel with no clear in between, render
\* returns the last min(30, n) appended entries, each as the line
\* "author: content", oldest first and newline-joined, whatever has been
\* appended to or cleared from the other channels.
ClaimC11 ==
  \A c \in Channels :
    LET n    == Len(appended[c])
        text == Below(LastLines(appended[c], Min(ContextLen, n)), 1)
    IN  n >= 1 =>
          /\ ChannelContext(message_history, c) = text
          /\ context.channel = c => context.text = text

\* the context of a channel that has seen 52 messages starts at the 23rd,
\* while the other channel holds three
WitnessC11 ==
  /\ context.channel = 1
  /\ Len(appended[1]) = MaxAppends
  /\ Len(appended[2]) = 3
  /\ SubSeq(context.text, 1, 7) = <<"b", "o", ":", " ", "2", "3", "\n">>

\* C12: every channel's buffer holds at most 50 entries, and after n appends
\* to a channel since its creation or last clear it holds the most recent
\* min(50, n) entries in insertion order.
ClaimC12 ==
  /\ \A c \in DOMAIN message_history : Len(message_history[c]) <= HistoryMaxLen
  /\ \A c \in Channels :
       LET n == Len(appended[c])
       IN  n >= 1 =>
             /\ c \in DOMAIN message_history
             /\ message_history[c]
                  = LastLines(appended[c], Min(HistoryMaxLen, n))

\* 52 messages in a channel: the deque holds 50, the third one first
WitnessC12 ==
  /\ Len(appended[1]) = MaxAppends
  /\ 1 \in DOMAIN message_history
  /\ Len(message_history[1]) = HistoryMaxLen
  /\ message_history[1][1] = <<"b", "o", ":", " ", "3">>

\* C13: render of a channel returns the 'no history' sentinel exactly when
\* the channel has no entries (never appended to, or cleared since the last
\* append), render never returns the empty string, and no channel buffer
\* exists but is empty.
ClaimC13 ==
  \A c \in Channels :
    LET text == ChannelContext(message_history, c)
    IN  /\ text = NoHistoryMsg <=> appended[c] = <<>>
        /\ text # <<>>
        /\ c \in DOMAIN message_history => message_history[c] # <<>>
        /\ context.channel = c =>
             /\ context.text = text
             /\ context.text # <<>>

\* the sentinel for a channel that was written to and then cleared, next to
\* a channel that still has lines
WitnessC13 ==
  /\ context.channel = 1
  /\ 1 \in cleared
  /\ 1 \notin DOMAIN message_history
  /\ 2 \in DOMAIN message_history
  /\ context.text = NoHistoryMsg

\* the text left of a message after removing both mention-token forms and
\* trimming
Remainder(content) ==
  Strip(Replace(Replace(content, MentionToken), NickMentionToken))

\* the deque of channel c in history, empty if there is none
Buffer(history, c) == IF c \in DOMAIN history THEN history[c] ELSE <<>>

\* the texts generate_response may return
ReturnTexts ==
  {NoCredentialsMsg, AllExhaustedMsg} \cup Completions
    \cup {ErrorPrefix \o e : e \in ErrorTexts}

\* C14: an inbound message that is bot-authored or has no scope is neither
\* recorded nor answered; any other message is recorded exactly once in its
\* channel's buffer, and a reply is generated and sent exactly when its
\* channel is the scope's free-reply channel, or the bot is mentioned and
\* the text left after removing both mention-token forms and trimming is
\* non-empty (that text being the prompt); a message of mention tokens only
\* gets no reply.
ClaimC14 ==
  \A p \in Procs :
    LET f == proc[p]
        m == f.message
        \* the channel is the free-reply channel the handler found configured
        free == f.freeroom_id # None /\ m.channel = f.freeroom_id
    IN  f.op = "on_message" =>
          IF m.bot \/ ~m.guild
            THEN /\ f.pc = "done"
                 /\ message_history = f.pre_history
                 /\ f.sent = <<>>
            ELSE /\ DOMAIN message_history
                      = DOMAIN f.pre_history \cup {m.channel}
                 /\ \A c \in DOMAIN message_history :
                      message_history[c] =
                        IF c = m.channel
                          THEN Append(Buffer(f.pre_history, c),
                                      Line(<<m.author, m.content>>))
                          ELSE f.pre_history[c]
                 /\ f.pc \notin {"on_message_freeroom", "done"} =>
                      f.freeroom_id = freeroom_channel
                 /\ f.pc = "done" =>
                      /\ f.sent # <<>> <=>
                           \/ free
                           \/ m.mentions /\ Remainder(m.content) # <<>>
                      /\ f.sent # <<>> => f.sent = <<f.result>>
                                          /\ f.result \in ReturnTexts
                      /\ (f.sent # <<>> /\ ~free) =>
                           f.prompt = Remainder(m.content)
                      /\ (f.sent # <<>> /\ free) => f.prompt = m.content

\* a message of the two mention tokens, outside the free-reply channel:
\* recorded, not answered
WitnessC14 ==
  \E p \in Procs :
    /\ Returned(p, "on_message")
    /\ proc[p].message.content = NickMentionToken \o <<" ">> \o MentionToken
    /\ proc[p].message.mentions
    /\ ~proc[p].message.bot
    /\ proc[p].message.guild
    /\ proc[p].message.channel = 1
    /\ freeroom_channel = 2
    /\ Len(message_history[1]) = 1
    /\ proc[p].sent = <<>>

\* C15: every generate call terminates and returns the NoCredentials
\* message, the backend's completion, the error-prefixed message or the
\* all-keys-exhausted message, whatever the backend answers on any attempt
\* and however the call interleaves with other operations on the scope: its
\* retries never exceed the number of credentials it counted, every handler
\* in flight has a next step, and a call in flight leads to a returned call.
ClaimC15 ==
  /\ [](\A p \in Procs :
          LET f == proc[p]
          IN  f.op = "generate_response" =>
                /\ f.pc # "done" =>
                     /\ f.retry_count <= Len(f.max_retries)
                     /\ Len(f.attempts) <= Len(f.max_retries)
                /\ Len(f.attempts) <= MaxKeys
                /\ f.pc = "done" => f.result \in ReturnTexts)
  /\ \A p \in Procs :
       (proc[p].op = "generate_response")
         ~> Returned(p, "generate_response")

\* a call that went through every credential it counted and returned, while
\* a removal took one of them away
WitnessC15 ==
  \E p, q \in Procs :
    /\ Returned(p, "generate_response")
    /\ Len(proc[p].pre_keys) = MaxLivePool
    /\ Len(proc[p].replies) = MaxLivePool
    /\ AllRate(proc[p].replies, MaxLivePool)
    /\ proc[p].result = AllExhaustedMsg
    /\ Returned(q, "remove_api_key")
    /\ proc[q].result = <<"API key has been removed!">>
    /\ Len(api_keys) = MaxLivePool - 1

\* C16: when rotate, remove, current and generate operations on one scope
\* interleave at the store's suspension points, then once every operation
\* in flight has completed the persisted current_index is below
\* len(credentials) for a non-empty pool.
ClaimC16 ==
  (/\ \A p \in Procs : Free(p)
   /\ api_keys # <<>>)
  => current_key_index < Len(api_keys)

\* the position of credential c in keys (1-based)
Position(keys, c) == CHOOSE i \in 1..Len(keys) : keys[i] = c

\* the credential after c in rotation order
Successor(keys, c) == keys[(Position(keys, c) % Len(keys)) + 1]

\* the calls of p and q both made their first attempt with one credential
\* and both got a rate-shaped error for it, and no later attempt of either
\* failed that way
SharedFailure(p, q) ==
  LET f == proc[p]
      g == proc[q]
  IN  /\ p # q
      /\ f.op = "generate_response" /\ g.op = "generate_response"
      /\ Len(api_keys) >= 2
      /\ f.replies # <<>> /\ g.replies # <<>>
      /\ f.replies[1] = "rate" /\ g.replies[1] = "rate"
      /\ f.attempts[1] = g.attempts[1]
      /\ \A i \in 2..Len(f.replies) : f.replies[i] # "rate"
      /\ \A i \in 2..Len(g.replies) : g.replies[i] # "rate"

\* what get_current_api_key returns for a persisted list and index
\* (lines 34-45: None on an empty list, keys[0] past the end)
CurrentOf(keys, index) ==
  IF NoKeys(keys) THEN None
  ELSE IF OutOfRange(index, keys) THEN At(keys, 0) ELSE At(keys, index)

\* C17: when two generate calls on a pool of k >= 2 both make an attempt
\* with the same credential c and both receive a rate-shaped error for it,
\* then under every interleaving each call's next attempt uses the
\* credential right after c, neither call invokes the backend twice with
\* one credential, and once both have returned the persisted current_index
\* has advanced by exactly one position, to the credential after c.
ClaimC17 ==
  \A p, q \in Procs :
    SharedFailure(p, q) =>
      LET f == proc[p]
          c == f.attempts[1]
      IN  /\ Distinct(f.attempts)
          /\ Len(f.attempts) >= 2 => f.attempts[2] = Successor(api_keys, c)
          /\ (Returned(p, "generate_response")
              /\ Returned(q, "generate_response"))
             => CurrentOf(api_keys, current_key_index) = Successor(api_keys, c)

\* C18: a generate call that runs alone on a pool of k >= 2 credentials with
\* current_index in range, and whose every attempt fails with a rate-shaped
\* error, makes exactly k rotations and returns the all-keys-exhausted
\* message with the persisted current_index at its value before the call.
ClaimC18 ==
  \A p \in Procs :
    LET f == proc[p]
        k == Len(f.pre_keys)
        n == Len(f.replies)
    IN  (/\ Returned(p, "generate_response")
         /\ k >= 2
         /\ f.pre_index < k
         /\ n >= 1
         /\ AllRate(f.replies, n))
        => /\ f.rotations = k
           /\ f.result = AllExhaustedMsg
           /\ api_keys = f.pre_keys
           /\ current_key_index = f.pre_index

\* five credentials, all rate-limited, the index back at 3
WitnessC18 ==
  \E p \in Procs :
    /\ Returned(p, "generate_response")
    /\ proc[p].pre_keys = Pool(5)
    /\ proc[p].pre_index = 3
    /\ proc[p].replies = [i \in 1..5 |-> "rate"]
    /\ proc[p].attempts = <<4, 5, 1, 2, 3>>
    /\ proc[p].rotations = 5
    /\ current_key_index = 3

\* handler p has returned from an accepted /airemovekey that started with
\* current_index in range
Removed(p) ==
  /\ Returned(p, "remove_api_key")
  /\ proc[p].result = <<"API key has been removed!">>
  /\ proc[p].pre_index < Len(proc[p].pre_keys)

\* C19 as stated: a successful remove(p) of a credential other than the
\* current one (p - 1 # current_index, current_index in range) leaves the
\* credential that current() returns unchanged.
ClaimC19AnyPosition ==
  \A p \in Procs :
    LET f == proc[p]
    IN  (Removed(p) /\ f.arg - 1 # f.pre_index)
        => CurrentOf(api_keys, current_key_index)
             = CurrentOf(f.pre_keys, f.pre_index)

\* C19: a successful remove(p) of a credential behind the current one
\* (p - 1 > current_index) leaves current_index and the credential that
\* current() returns unchanged; a successful remove(p) of a credential before
\* the current one (p - 1 < current_index) does not move current_index with
\* the list: the index keeps its number and current() returns the credential
\* that followed the former current one, or, when the current one was last,
\* the index is reset to 0 and current() returns the first that remains.
ClaimC19 ==
  \A p \in Procs :
    LET f == proc[p]
        k == Len(f.pre_keys)
        i == f.pre_index
    IN  Removed(p) =>
          /\ f.arg - 1 > i =>
                /\ current_key_index = i
                /\ CurrentOf(api_keys, current_key_index) = At(f.pre_keys, i)
          /\ (f.arg - 1 < i /\ i < k - 1) =>
                /\ current_key_index = i
                /\ CurrentOf(api_keys, current_key_index)
                     = At(f.pre_keys, i + 1)
          /\ (f.arg - 1 < i /\ i = k - 1) =>
                /\ current_key_index = 0
                /\ CurrentOf(api_keys, current_key_index) = At(api_keys, 0)

\* credential 4 of five removed while credential 2 is the current one
WitnessC19 ==
  \E p \in Procs :
    /\ Removed(p)
    /\ proc[p].pre_keys = Pool(5)
    /\ proc[p].pre_index = 1
    /\ proc[p].arg = 4
    /\ api_keys = <<1, 2, 3, 5>>
    /\ CurrentOf(api_keys, current_key_index) = 2

\* C20: when two adds, or an add and a remove, on one scope interleave at
\* the store's suspension points, then once both have completed every add
\* that reported success has its credential in the persisted list and every
\* remove that reported success has its credential absent from it.
ClaimC20 ==
  (/\ \A p \in Procs : Free(p)
   /\ \A p \in Procs : proc[p].op \in {"none", "add_api_key", "remove_api_key"})
  => \A p \in Procs :
       LET f == proc[p]
       IN  /\ (/\ Returned(p, "add_api_key")
               /\ f.result = <<"API key has been added!">>)
              => f.arg \in Range(api_keys)
           /\ (/\ Returned(p, "remove_api_key")
               /\ f.result = <<"API key has been removed!">>)
              => f.removed \notin Range(api_keys)

====
